---- MODULE Spec2Model ----
(***************************************************************************)
(* NaN-boxing (Marwes/nanbox, src/lib.rs).                                 *)
(*                                                                         *)
(* A machine word is a sequence of bits, least significant bit first:      *)
(* bit i of the Rust value is element i+1 of the sequence.  A u64 has 64   *)
(* elements, a u32 32, an i8 8 (two's complement), an f64 its 64 IEEE-754  *)
(* bits and a raw pointer its 64-bit address.  All arithmetic of the       *)
(* source is done on these sequences, so every width is kept.              *)
(***************************************************************************)
EXTENDS Integers, Sequences, FiniteSets

VARIABLES debug, arg, box, status, tagOut, out

vars == <<debug, arg, box, status, tagOut, out>>

(***************************************************************************)
(* Bounds of the explored inputs.                                          *)
(***************************************************************************)
\* low payload values 0..MaxSmall (and their complements) are tried
MaxSmall == 1
\* tags 0..MaxTag are passed to NanBox::new for the non-float types
MaxTag == 16
\* tags 0..MaxFloatTag are passed to NanBox::new for f64
MaxFloatTag == 1
\* pointer addresses have bits 63..47 equal to a number in 0..MaxHigh
MaxHigh == 3

(***************************************************************************)
(* Bit-level arithmetic of the fixed-width integers.                       *)
(***************************************************************************)
\* the w-bit word of the natural number n (n < 2^31)
Bits(n, w) == [i \in 1..w |-> IF i <= 31 THEN (n \div (2 ^ (i - 1))) % 2 ELSE 0]

\* `a | b`
BitOr(a, b) == [i \in 1..Len(a) |-> IF a[i] = 1 \/ b[i] = 1 THEN 1 ELSE 0]

\* `a & b`
BitAnd(a, b) == [i \in 1..Len(a) |-> IF a[i] = 1 /\ b[i] = 1 THEN 1 ELSE 0]

\* `!a`
BitNot(a) == [i \in 1..Len(a) |-> 1 - a[i]]

\* `a << n` (bits shifted out of the word are dropped)
Shl(a, n) == [i \in 1..Len(a) |-> IF i - n >= 1 THEN a[i - n] ELSE 0]

\* `a >> n` on an unsigned word
Shr(a, n) == [i \in 1..Len(a) |-> IF i + n <= Len(a) THEN a[i + n] ELSE 0]

\* `a <= b` on unsigned words of the same width
Leq(a, b) ==
    LET D == {i \in 1..Len(a) : a[i] # b[i]}
    IN  D = {} \/ (\E i \in D : b[i] = 1 /\ \A j \in D : j <= i)

\* `v as uN` of an unsigned v: zero-extended or truncated to w bits
ZeroExt(v, w) == [i \in 1..w |-> IF i <= Len(v) THEN v[i] ELSE 0]

\* `v as uN` of a signed v: sign-extended or truncated to w bits
SignExt(v, w) == [i \in 1..w |-> IF i <= Len(v) THEN v[i] ELSE v[Len(v)]]

\* the word `1 << n` of width w
OneShl(n, w) == [i \in 1..w |-> IF i = n + 1 THEN 1 ELSE 0]

\* `(1 << n) - 1` of width w
LowMask(n, w) == [i \in 1..w |-> IF i <= n THEN 1 ELSE 0]

(***************************************************************************)
(* Constants of the encoding.                                              *)
(***************************************************************************)
DOUBLE_MAX_TAG == 131056

SHIFTED_DOUBLE_MAX_TAG ==
    BitOr(Shl(ZeroExt(Bits(DOUBLE_MAX_TAG, 32), 64), 47), LowMask(32, 64))

(***************************************************************************)
(* The NanBoxable types.                                                   *)
(***************************************************************************)
IntTypes == {"u8", "u16", "u32", "i8", "i16", "i32"}
PtrTypes == {"*mut T", "*const T"}
Types == IntTypes \cup PtrTypes \cup {"f64"}

Width(ty) ==
    CASE ty \in {"u8", "i8"} -> 8
      [] ty \in {"u16", "i16"} -> 16
      [] ty \in {"u32", "i32"} -> 32
      [] OTHER -> 64

Signed(ty) == ty \in {"i8", "i16", "i32"}

NoBox == <<>>
NoOut == [kind |-> "none"]
Panic == [kind |-> "panic"]

\* NanBox::tag
tag(b) ==
    IF Leq(b, SHIFTED_DOUBLE_MAX_TAG)
    THEN Bits(0, 32)
    ELSE BitAnd(ZeroExt(Shr(b, 47), 32), BitNot(Bits(DOUBLE_MAX_TAG, 32)))

\* into_nan_box with the pointer's debug assertion left out
into_nan_box_unchecked(ty, v, dbg) ==
    IF ty = "f64" \/ ty \in PtrTypes THEN [panic |-> FALSE, b |-> v]
    ELSE [panic |-> FALSE,
          b |-> IF Signed(ty) THEN SignExt(v, 64) ELSE ZeroExt(v, 64)]

\* NanBoxable::into_nan_box; dbg: debug assertions are compiled in
into_nan_box(ty, v, dbg) ==
    IF ty = "f64" THEN [panic |-> FALSE, b |-> v]
    ELSE IF ty \in PtrTypes
    THEN IF dbg /\ Shr(v, 48) # Bits(0, 64)
         THEN [panic |-> TRUE, b |-> NoBox]
         ELSE [panic |-> FALSE, b |-> v]
    ELSE [panic |-> FALSE,
          b |-> IF Signed(ty) THEN SignExt(v, 64) ELSE ZeroExt(v, 64)]

\* NanBoxable::from_nan_box
from_nan_box(ty, n) ==
    IF ty = "f64" \/ ty \in PtrTypes THEN n ELSE ZeroExt(n, Width(ty))

\* pack_nan_box without the override of the impl for f64: the tag is ORed
\* into a double as into any other payload
pack_nan_box_no_override(ty, v, t, dbg) ==
    LET r == into_nan_box(ty, v, dbg)
        shifted_tag ==
            Shl(BitOr(ZeroExt(Bits(DOUBLE_MAX_TAG, 32), 64),
                      ZeroExt(Bits(t, 8), 64)), 47)
        b == BitOr(r.b, shifted_tag)
    IN  IF r.panic THEN r
        ELSE IF dbg /\ tag(b) # ZeroExt(Bits(t, 8), 32)
        THEN [panic |-> TRUE, b |-> NoBox]
        ELSE [panic |-> FALSE, b |-> b]

\* pack_nan_box ORing in the tag alone, without DOUBLE_MAX_TAG
pack_nan_box_tag_only(ty, v, t, dbg) ==
    IF ty = "f64"
    THEN IF dbg /\ t # 0
         THEN [panic |-> TRUE, b |-> NoBox]
         ELSE into_nan_box(ty, v, dbg)
    ELSE LET r == into_nan_box(ty, v, dbg)
             shifted_tag == Shl(ZeroExt(Bits(t, 8), 64), 47)
             b == BitOr(r.b, shifted_tag)
         IN  IF r.panic THEN r
             ELSE IF dbg /\ tag(b) # ZeroExt(Bits(t, 8), 32)
             THEN [panic |-> TRUE, b |-> NoBox]
             ELSE [panic |-> FALSE, b |-> b]

\* NanBoxable::pack_nan_box (t is the u8 tag)
pack_nan_box(ty, v, t, dbg) ==
    IF ty = "f64"
    THEN IF dbg /\ t # 0
         THEN [panic |-> TRUE, b |-> NoBox]
         ELSE into_nan_box(ty, v, dbg)
    ELSE LET r == into_nan_box(ty, v, dbg)
             shifted_tag ==
                 Shl(BitOr(ZeroExt(Bits(DOUBLE_MAX_TAG, 32), 64),
                           ZeroExt(Bits(t, 8), 64)), 47)
             b == BitOr(r.b, shifted_tag)
         IN  IF r.panic THEN r
             ELSE IF dbg /\ tag(b) # ZeroExt(Bits(t, 8), 32)
             THEN [panic |-> TRUE, b |-> NoBox]
             ELSE [panic |-> FALSE, b |-> b]

\* unpack_nan_box without the override of the impl for f64: a double is
\* masked to 48 bits as any other payload
unpack_nan_box_masked(ty, value) ==
    from_nan_box(ty, BitAnd(value, LowMask(48, 64)))

\* NanBoxable::unpack_nan_box
unpack_nan_box(ty, value) ==
    IF ty = "f64"
    THEN from_nan_box(ty, value)
    ELSE from_nan_box(ty, BitAnd(value, LowMask(48, 64)))

(***************************************************************************)
(* Inputs.                                                                 *)
(***************************************************************************)
\* values of an integer type: small ones, their complements (the negative
\* ones of a signed type), and both with the top bit flipped (MIN, MAX)
IntValues(ty) ==
    LET w == Width(ty)
        S == {Bits(n, w) : n \in 0..MaxSmall}
        T == S \cup {BitNot(v) : v \in S}
    IN  T \cup {[v EXCEPT ![w] = 1 - v[w]] : v \in T}

\* bits 46..0 of a word
LowPatterns ==
    LET S == {Bits(n, 47) : n \in 0..MaxSmall}
    IN  S \cup {BitNot(v) : v \in S} \cup {LowMask(32, 47), OneShl(32, 47)}

\* a 64-bit word from its bits 63..47 (as a 17-bit word) and its bits 46..0
Join(hi, lo) == [i \in 1..64 |-> IF i <= 47 THEN lo[i] ELSE hi[i - 47]]

PtrValues ==
    {Join(Bits(h, 17), lo) : h \in 0..MaxHigh, lo \in LowPatterns}
        \cup {Join(BitNot(Bits(0, 17)), lo) : lo \in LowPatterns}

\* a double from its sign, exponent, mantissa bits 51..47 and 46..0
Double(s, e, mh, lo) ==
    Join([i \in 1..17 |-> IF i <= 5 THEN Bits(mh, 5)[i]
                          ELSE IF i <= 16 THEN Bits(e, 11)[i - 5]
                          ELSE s], lo)

Exponents == {0, 1, 2046, 2047}

F64Values ==
    {Double(s, e, mh, lo) :
        s \in {0, 1}, e \in Exponents, mh \in 0..31, lo \in LowPatterns}

Values(ty) ==
    IF ty = "f64" THEN F64Values
    ELSE IF ty \in PtrTypes THEN PtrValues ELSE IntValues(ty)

Tags(ty) == IF ty = "f64" THEN 0..MaxFloatTag ELSE 0..MaxTag

\* f64::is_nan, on the bit pattern
is_nan(f) ==
    /\ \A i \in 53..63 : f[i] = 1
    /\ \E i \in 1..52 : f[i] = 1

(***************************************************************************)
(* The variant sets declared with make_nanbox!.                            *)
(***************************************************************************)
Schemas ==
    { <<"f64", "i32", "*mut T">>,
      <<"f64", "u8", "i32", "*mut T">>,
      <<"i32", "f64", "*mut T">>,
      <<"u8", "*mut T", "f64">> }

\* From<$enum_name> for $name: the loop over the declared fields
RECURSIVE FromLoop(_, _, _, _, _, _)
FromLoop(schema, field, value, i, t, dbg) ==
    IF i > Len(schema) THEN [panic |-> TRUE, b |-> NoBox]
    ELSE IF field = i THEN pack_nan_box(schema[i], value, t, dbg)
    ELSE FromLoop(schema, field, value, i + 1, t + 1, dbg)

from(schema, field, value, dbg) == FromLoop(schema, field, value, 1, 0, dbg)

\* $name::into_variant: the loop over the declared fields
RECURSIVE IntoVariantLoop(_, _, _, _)
IntoVariantLoop(schema, value, i, expected_tag) ==
    IF i > Len(schema) THEN Panic
    ELSE IF Bits(expected_tag, 32) = tag(value)
    THEN [kind |-> "variant", field |-> i, ty |-> schema[i],
          val |-> unpack_nan_box(schema[i], value)]
    ELSE IntoVariantLoop(schema, value, i + 1, expected_tag + 1)

into_variant(schema, value) == IntoVariantLoop(schema, value, 1, 0)

(***************************************************************************)
(* The state machine: a run makes one value (NanBox::new, into_nan_box or  *)
(* Value::from) and then inspects it (tag, unpack, into_variant).          *)
(***************************************************************************)
NoArg == [api |-> "none"]

Init ==
    /\ debug \in BOOLEAN
    /\ arg = NoArg
    /\ box = NoBox
    /\ status = "none"
    /\ tagOut = <<>>
    /\ out = NoOut

Finish(r) ==
    /\ box' = r.b
    /\ status' = IF r.panic THEN "panic" ELSE "ok"
    /\ tagOut' = <<>>
    /\ out' = NoOut
    /\ UNCHANGED debug

\* NanBox::new(t, v) with v of type ty
New ==
    /\ status = "none"
    /\ \E ty \in Types : \E t \in Tags(ty) : \E v \in Values(ty) :
          /\ arg' = [api |-> "new", ty |-> ty, tag |-> t, val |-> v]
          /\ Finish(pack_nan_box(ty, v, t, debug))

\* v.into_nan_box() with v a raw pointer
IntoNanBox ==
    /\ status = "none"
    /\ \E ty \in PtrTypes : \E v \in PtrValues :
          /\ arg' = [api |-> "into_nan_box", ty |-> ty, val |-> v]
          /\ Finish(into_nan_box(ty, v, debug))

\* Value::from(Variant::field(v)) for a declared variant set
From ==
    /\ status = "none"
    /\ \E schema \in Schemas : \E field \in 1..Len(schema) :
          \E v \in Values(schema[field]) :
              /\ arg' = [api |-> "from", schema |-> schema, field |-> field,
                         ty |-> schema[field], val |-> v]
              /\ Finish(from(schema, field, v, debug))

\* box.tag()
Tag ==
    /\ status = "ok"
    /\ tagOut' = tag(box)
    /\ UNCHANGED <<debug, arg, box, status, out>>

\* box.unpack::<T>() with T the type that was packed
Unpack ==
    /\ status = "ok"
    /\ arg.api = "new"
    /\ out' = [kind |-> "value", ty |-> arg.ty,
               val |-> unpack_nan_box(arg.ty, box)]
    /\ UNCHANGED <<debug, arg, box, status, tagOut>>

\* value.into_variant() on a wrapper made by From
IntoVariant ==
    /\ status = "ok"
    /\ arg.api = "from"
    /\ out' = into_variant(arg.schema, box)
    /\ UNCHANGED <<debug, arg, box, status, tagOut>>

Next == New \/ IntoNanBox \/ From \/ Tag \/ Unpack \/ IntoVariant

Spec == Init /\ [][Next]_vars

(***************************************************************************)
(* Vocabulary of the properties.                                           *)
(***************************************************************************)
\* the variant set of the tests of src/lib.rs
LibSchema == <<"f64", "i32", "*mut T">>

\* the address is below 2^48
Below48(a) == \A i \in 49..64 : a[i] = 0

\* `==` of f64, on the bit patterns
f64_eq(a, b) ==
    /\ ~is_nan(a)
    /\ ~is_nan(b)
    /\ \/ a = b
       \/ \A i \in 1..63 : a[i] = 0 /\ b[i] = 0

\* `==` of two payloads of type ty
payload_eq(ty, a, b) == IF ty = "f64" THEN f64_eq(a, b) ELSE a = b

Tagged == tagOut # <<>>
Unpacked == out # NoOut

\* the inputs C1 speaks of
C1_Input ==
    /\ arg.api = "from"
    /\ arg.schema = LibSchema
    /\ arg.ty = "*mut T" => Below48(arg.val)
    /\ arg.ty = "f64" => ~is_nan(arg.val)

\* C1: with the variant set {Float(f64), Int(i32), Pointer(*mut ())}, wrap
\* followed by unwrap returns the variant that was wrapped, for every i32,
\* every address below 2^48 and every non-NaN double, and no assertion fires.
C1_WrapUnwrapLossless ==
    C1_Input =>
        /\ status = "ok"
        /\ Unpacked =>
              /\ out.kind = "variant"
              /\ out.field = arg.field
              /\ payload_eq(arg.ty, out.val, arg.val)

\* C2: for every tag in 1..15 and every value of u8, u16, u32, i8, i16, i32,
\* NanBox::new(t, v) does not fire the assertion of pack_nan_box, has tag t
\* and unpacks to v.
C2_SmallIntRoundTrip ==
    (arg.api = "new" /\ arg.ty \in IntTypes /\ arg.tag \in 1..15) =>
        /\ status = "ok"
        /\ Tagged => tagOut = Bits(arg.tag, 32)
        /\ Unpacked => out.val = arg.val

\* C3: for every double bit pattern f, NaNs included, NanBox::new(0, f) has
\* tag 0.
C3_FloatTagIsZero ==
    (arg.api = "new" /\ arg.ty = "f64" /\ arg.tag = 0 /\ Tagged) =>
        tagOut = Bits(0, 32)

\* C4: for every address below 2^48 and every tag in 1..15, odd or even,
\* NanBox::new(t, a) has tag t and unpacks to exactly the address a.
C4_PointerRoundTrip ==
    (/\ arg.api = "new"
     /\ arg.ty \in PtrTypes
     /\ arg.tag \in 1..15
     /\ Below48(arg.val)) =>
        /\ Tagged => tagOut = Bits(arg.tag, 32)
        /\ Unpacked => out.val = arg.val

\* C5: with the variant set {Float(f64), Int(i32), Pointer(*mut ())}, for
\* every NaN bit pattern n, Value::from(n).into_variant() is the Float
\* variant with a NaN payload; it is never Int or Pointer and never aborts.
C5_NanStaysFloat ==
    (/\ arg.api = "from"
     /\ arg.schema = LibSchema
     /\ arg.ty = "f64"
     /\ is_nan(arg.val)) =>
        /\ status = "ok"
        /\ Unpacked =>
              /\ out.kind = "variant"
              /\ out.ty = "f64"
              /\ is_nan(out.val)

\* C6: for every non-NaN double f, NanBox::new(0, f) is the bit pattern of f
\* (no tag bits are ORed in) and unpacks to the same 64 bits (no mask).
C6_FloatRoundTrip ==
    (arg.api = "new" /\ arg.ty = "f64" /\ arg.tag = 0 /\ ~is_nan(arg.val)) =>
        /\ status = "ok"
        /\ box = arg.val
        /\ Unpacked => out.val = arg.val

\* a negative non-NaN double has been packed with tag 0 and unpacked
C6_Witness ==
    /\ arg.api = "new"
    /\ arg.ty = "f64"
    /\ arg.tag = 0
    /\ ~is_nan(arg.val)
    /\ arg.val[64] = 1
    /\ Unpacked
    /\ out.val = arg.val

\* C7: with debug assertions, into_nan_box of a pointer at or above 2^48
\* (and so NanBox::new of it with any tag) aborts instead of returning a
\* word, and into_nan_box of a pointer below 2^48 does not abort.
C7_PointerBoundary ==
    (debug /\ arg.api \in {"into_nan_box", "new"} /\ arg.ty \in PtrTypes) =>
        /\ ~Below48(arg.val) => status = "panic"
        /\ (arg.api = "into_nan_box" /\ Below48(arg.val)) =>
              (status = "ok" /\ box = arg.val)

\* into_nan_box of the address 1 << 48 has aborted in a debug build
C7_Witness ==
    /\ debug
    /\ arg.api = "into_nan_box"
    /\ arg.val = OneShl(48, 64)
    /\ status = "panic"

\* bits 50..47 of a 64-bit word, as a u32
TagField(w) == [i \in 1..32 |-> IF i <= 4 THEN w[47 + i] ELSE 0]

C9_ClosedWorldUnwrap ==
    (arg.api = "from" /\ arg.schema[1] = "f64") =>
        /\ status = "ok"
        /\ Unpacked =>
              /\ out.kind = "variant"
              /\ out.field = arg.field

\* C10: a non-float payload packed with a tag in 1..15 is a word above
\* SHIFTED_DOUBLE_MAX_TAG and a NaN pattern, so it is the pattern of no
\* non-NaN double; and every non-NaN double has tag 0.
C10_PackedIsNotANumber ==
    /\ (/\ arg.api = "new"
        /\ arg.ty \in IntTypes \cup PtrTypes
        /\ arg.tag \in 1..15
        /\ arg.ty \in PtrTypes => Below48(arg.val)
        /\ status = "ok") =>
           /\ ~Leq(box, SHIFTED_DOUBLE_MAX_TAG)
           /\ is_nan(box)
    /\ (/\ arg.api = "new"
        /\ arg.ty = "f64"
        /\ ~is_nan(arg.val)
        /\ status = "ok"
        /\ Tagged) => tagOut = Bits(0, 32)

\* a negative i32 has been packed with tag 1 without debug assertions: the
\* word, all ones, is above the boundary and a NaN pattern
C10_Witness ==
    /\ arg.api = "new"
    /\ arg.ty = "i32"
    /\ arg.tag = 1
    /\ arg.val[32] = 1
    /\ ~debug
    /\ status = "ok"
    /\ ~Leq(box, SHIFTED_DOUBLE_MAX_TAG)
    /\ is_nan(box)
====
